---------------------------- MODULE Spec2Model ----------------------------
(***************************************************************************)
(* Model of goat-one's virtual machine record preparation                  *)
(* (resource/virtualmachine/preparer.go) and of the storage filter         *)
(* (resource/storage/filter.go).                                           *)
(*                                                                         *)
(* Conventions.                                                            *)
(*   - A Go pointer or optional value is a sequence of length 0 (nil) or   *)
(*     1 (the pointee): Nil, Ptr(x), Deref(p).                             *)
(*   - A Go string that the code parses, formats or compares with "" is a  *)
(*     sequence of one-character strings: "" is <<>>, "42" is <<"4","2">>. *)
(*   - A Go (value, error) result is a record [err, v]; v is the zero      *)
(*     value when err is TRUE.                                             *)
(*   - A Go map is a record [made, m]: made is FALSE for the nil map, m is *)
(*     a function from the keys present to their values.                   *)
(***************************************************************************)
EXTENDS Integers, Sequences, FiniteSets, TLC

Nil == <<>>
Ptr(x) == <<x>>
Deref(p) == p[1]

Ok(x) == [err |-> FALSE, v |-> x]
Fail(zero) == [err |-> TRUE, v |-> zero]

EmptyStr == <<>>

(***************************************************************************)
(* strconv.Itoa on the integers the model uses.                            *)
(***************************************************************************)
DigitChar(d) == <<"0", "1", "2", "3", "4", "5", "6", "7", "8", "9">>[d + 1]

RECURSIVE NatDigits(_)
NatDigits(n) == IF n < 10 THEN <<DigitChar(n)>>
                ELSE Append(NatDigits(n \div 10), DigitChar(n % 10))

Itoa(n) == IF n < 0 THEN <<"-">> \o NatDigits(0 - n) ELSE NatDigits(n)

IsDigit(c) == c \in {"0", "1", "2", "3", "4", "5", "6", "7", "8", "9"}

DigitVal(c) == CHOOSE d \in 0..9 : DigitChar(d) = c

RECURSIVE DigitsVal(_)
DigitsVal(s) == IF s = <<>> THEN 0
                ELSE 10 * DigitsVal(SubSeq(s, 1, Len(s) - 1)) + DigitVal(s[Len(s)])

AllDigits(s) == Len(s) > 0 /\ \A i \in 1..Len(s) : IsDigit(s[i])

(***************************************************************************)
(* strconv.ParseUint(value, 10, 64): an error unless value is a non-empty  *)
(* run of decimal digits (the model's values stay far below 2^64).         *)
(***************************************************************************)
ParseUint(s) == IF AllDigits(s) THEN Ok(DigitsVal(s)) ELSE Fail(0)

(***************************************************************************)
(* strconv.ParseFloat(value, 32) on the decimal forms the model uses:      *)
(* digits, optionally followed by a point and digits.  The float is kept   *)
(* as the fraction num / den.                                              *)
(***************************************************************************)
PointAt(s) == {i \in 1..Len(s) : s[i] = "."}

RECURSIVE Pow10(_)
Pow10(k) == IF k = 0 THEN 1 ELSE 10 * Pow10(k - 1)

ParseFloat(s) ==
    IF AllDigits(s) THEN Ok([num |-> DigitsVal(s), den |-> 1])
    ELSE IF Cardinality(PointAt(s)) = 1
         THEN LET i == CHOOSE j \in PointAt(s) : TRUE
                  ip == SubSeq(s, 1, i - 1)
                  fp == SubSeq(s, i + 1, Len(s))
              IN  IF AllDigits(ip) /\ AllDigits(fp)
                  THEN Ok([num |-> DigitsVal(ip \o fp), den |-> Pow10(Len(fp))])
                  ELSE Fail([num |-> 0, den |-> 1])
         ELSE Fail([num |-> 0, den |-> 1])

(***************************************************************************)
(* Go maps.                                                                *)
(***************************************************************************)
NilMap == [made |-> FALSE, m |-> <<>>]
MakeMap == [made |-> TRUE, m |-> <<>>]

MapGet(t, k, zero) == IF k \in DOMAIN t.m THEN t.m[k] ELSE zero

MapPut(t, k, val) ==
    [t EXCEPT !.m = [x \in (DOMAIN t.m) \cup {k} |-> IF x = k THEN val ELSE t.m[x]]]


(***************************************************************************)
(* Static configuration read through viper (site name, cloud compute       *)
(* service, cloud type).                                                   *)
(***************************************************************************)
Config == [siteName |-> <<"S">>, cloudComputeService |-> <<"c">>, cloudType |-> <<"o">>]

(***************************************************************************)
(* Stand-in for the end of the range ptypes.TimestampProto accepts: a time *)
(* at or past it is rejected with an error.                                *)
(***************************************************************************)
maxTimestampSeconds == 9

VirtualMachineStateMap(state) == IF state = 3 THEN <<"A">> ELSE IF state = 6 THEN <<"D">> ELSE EmptyStr

checkValueErrStr(r) == IF ~r.err /\ r.v # EmptyStr THEN Ptr(r.v) ELSE Nil

checkValueErrInt(r) == checkValueErrStr([err |-> r.err, v |-> Itoa(r.v)])

checkErrUint64(r) ==
    IF ~r.err /\ r.v # EmptyStr
    THEN LET i == ParseUint(r.v) IN IF ~i.err THEN Ptr(i.v) ELSE Nil
    ELSE Nil

TimestampProto(t) ==
    IF t < maxTimestampSeconds THEN Ok(Ptr([Seconds |-> t, Nanos |-> 0])) ELSE Fail(Nil)

(* checkTime: (nil, err) on a lookup error, (nil, nil) for a nil time,     *)
(* otherwise the conversion's result.                                      *)
checkTime(r) ==
    IF ~r.err /\ r.v # Nil
    THEN LET ts == TimestampProto(Deref(r.v)) IN IF ~ts.err THEN Ok(ts.v) ELSE Fail(Nil)
    ELSE [err |-> r.err, v |-> Nil]

getVMUUID(vm) == IF vm.id.err THEN Fail(EmptyStr) ELSE Ok(Itoa(vm.id.v))

getMachineName(vm) == IF vm.deployID.err THEN Fail("") ELSE Ok(vm.deployID.v)

getLocalUserID(vm) == checkValueErrInt(vm.user)

getLocalGroupID(vm) == checkValueErrInt(vm.group)

(* Variant: an empty identity is reported as an error.                     *)
getGlobalUserNameStrict(p, vm) ==
    IF ~vm.user.err /\ MapGet(p.userTemplateIdentity, vm.user.v, EmptyStr) # EmptyStr
    THEN Ok(Ptr(MapGet(p.userTemplateIdentity, vm.user.v, EmptyStr)))
    ELSE Fail(Nil)

(* Variant: the identity is not tested for being empty.                    *)
getGlobalUserNameNoEmptyTest(p, vm) ==
    IF ~vm.user.err
    THEN Ok(Ptr(MapGet(p.userTemplateIdentity, vm.user.v, EmptyStr)))
    ELSE Fail(Nil)

getGlobalUserName(p, vm) ==
    IF ~vm.user.err /\ MapGet(p.userTemplateIdentity, vm.user.v, EmptyStr) # EmptyStr
    THEN Ok(Ptr(MapGet(p.userTemplateIdentity, vm.user.v, EmptyStr)))
    ELSE [err |-> vm.user.err, v |-> Nil]

getFqan(vm) ==
    IF ~vm.gname.err THEN Ptr(<<"/">> \o vm.gname.v \o <<"/Role=NULL/Capability=NULL">>) ELSE Nil

getStatus(vm) == IF ~vm.state.err THEN Ptr(VirtualMachineStateMap(vm.state.v)) ELSE Nil

getStartTime(vm) == LET r == checkTime(vm.stime) IN IF r.err THEN Fail(Nil) ELSE Ok(r.v)

getEndTime(vm) == LET r == checkTime(vm.etime) IN IF r.err THEN Nil ELSE r.v

(* Variant: a negative suspend duration is clamped to zero.                *)
getSuspendDurationClamped(sTime, eTime, wallDuration) ==
    IF eTime # Nil /\ sTime # Nil /\ wallDuration # Nil
    THEN LET d == Deref(eTime).Seconds - Deref(sTime).Seconds - Deref(wallDuration).Seconds
         IN  Ptr([Seconds |-> IF d < 0 THEN 0 ELSE d])
    ELSE Nil

getSuspendDuration(sTime, eTime, wallDuration) ==
    IF eTime # Nil /\ sTime # Nil /\ wallDuration # Nil
    THEN Ptr([Seconds |-> Deref(eTime).Seconds - Deref(sTime).Seconds - Deref(wallDuration).Seconds])
    ELSE Nil

(* Variant: a record without an end time is measured against the clock.    *)
wallTermNilEndNow(record, currentTime) ==
    IF record = Nil THEN 0
    ELSE IF Deref(record).RSTime = Nil THEN 0
    ELSE (IF Deref(record).RETime = Nil THEN currentTime
          ELSE IF Deref(Deref(record).RETime) = 0 THEN currentTime
          ELSE Deref(Deref(record).RETime))
         - Deref(Deref(record).RSTime)

(* Variant: an end of Unix time 0 is not replaced by the clock.            *)
wallTermZeroEnd(record, currentTime) ==
    IF record = Nil THEN 0
    ELSE IF Deref(record).RSTime = Nil THEN 0
    ELSE IF Deref(record).RETime = Nil THEN 0
    ELSE Deref(Deref(record).RETime) - Deref(Deref(record).RSTime)

(* One pass of the loop of getWallDuration over a history record.          *)
wallTerm(record, currentTime) ==
    IF record = Nil THEN 0
    ELSE IF Deref(record).RSTime = Nil THEN 0
    ELSE IF Deref(record).RETime = Nil THEN 0
    ELSE (IF Deref(Deref(record).RETime) = 0 THEN currentTime ELSE Deref(Deref(record).RETime))
         - Deref(Deref(record).RSTime)

RECURSIVE wallSum(_, _)
wallSum(records, currentTime) ==
    IF records = <<>> THEN 0
    ELSE wallTerm(Head(records), currentTime) + wallSum(Tail(records), currentTime)

getWallDuration(vm, currentTime) ==
    IF vm.hist.err THEN Nil ELSE Ptr([Seconds |-> wallSum(vm.hist.v, currentTime)])

getCPUCount(vm) == IF ~vm.vcpu.err THEN vm.vcpu.v ELSE 0

getNetworkType == Nil

getNetworkInbound(vm) == checkErrUint64(vm.nettx)

getNetworkOutbound(vm) == checkErrUint64(vm.netrx)

getMemory(vm) == checkErrUint64(vm.memory)

(***************************************************************************)
(* net.IP: nil, 4 bytes (IPv4) or 16 bytes.                                *)
(***************************************************************************)
To4(ip) ==
    IF Len(ip) = 4 THEN ip
    ELSE IF Len(ip) = 16 /\ (\A i \in 1..10 : ip[i] = 0) /\ ip[11] = 255 /\ ip[12] = 255
         THEN SubSeq(ip, 13, 16)
         ELSE Nil

IsLoopback(ip) ==
    IF To4(ip) # Nil THEN To4(ip)[1] = 127
    ELSE Len(ip) = 16 /\ (\A i \in 1..15 : ip[i] = 0) /\ ip[16] = 1

IsLinkLocalMulticast(ip) ==
    IF To4(ip) # Nil THEN To4(ip)[1] = 224 /\ To4(ip)[2] = 0 /\ To4(ip)[3] = 0
    ELSE Len(ip) = 16 /\ ip[1] = 255 /\ ip[2] % 16 = 2

IsLinkLocalUnicast(ip) ==
    IF To4(ip) # Nil THEN To4(ip)[1] = 169 /\ To4(ip)[2] = 254
    ELSE Len(ip) = 16 /\ ip[1] = 254 /\ (ip[2] \div 64) = 2

(* Variant: the 172.16.0.0/12 test starts one block late.                  *)
isPublicIPv4LateBlock(ip) ==
    IF ip = Nil THEN FALSE
    ELSE IF IsLoopback(ip) \/ IsLinkLocalMulticast(ip) \/ IsLinkLocalUnicast(ip) THEN FALSE
    ELSE IF To4(ip) # Nil
         THEN LET ip4 == To4(ip)
              IN  IF ip4[1] = 10 THEN FALSE
                  ELSE IF ip4[1] = 172 /\ ip4[2] > 16 /\ ip4[2] <= 31 THEN FALSE
                  ELSE IF ip4[1] = 192 /\ ip4[2] = 168 THEN FALSE
                  ELSE TRUE
         ELSE FALSE

isPublicIPv4(ip) ==
    IF ip = Nil THEN FALSE
    ELSE IF IsLoopback(ip) \/ IsLinkLocalMulticast(ip) \/ IsLinkLocalUnicast(ip) THEN FALSE
    ELSE IF To4(ip) # Nil
         THEN LET ip4 == To4(ip)
              IN  IF ip4[1] = 10 THEN FALSE
                  ELSE IF ip4[1] = 172 /\ ip4[2] >= 16 /\ ip4[2] <= 31 THEN FALSE
                  ELSE IF ip4[1] = 192 /\ ip4[2] = 168 THEN FALSE
                  ELSE TRUE
         ELSE FALSE

nicCounts(nic) == isPublicIPv4(nic.IP) \/ nic.IP6Global # Nil

RECURSIVE countNICs(_)
countNICs(nics) ==
    IF nics = <<>> THEN 0
    ELSE (IF nicCounts(Head(nics)) THEN 1 ELSE 0) + countNICs(Tail(nics))

getPublicIPCount(vm) == IF vm.nics.err THEN Nil ELSE Ptr(countNICs(vm.nics.v))

RECURSIVE sumDisks(_)
sumDisks(disks) ==
    IF disks = <<>> THEN 0 ELSE Deref(Head(disks)).Size + sumDisks(Tail(disks))

(* getDiskSizes reads disk.Size of every disk without a nil check.         *)
getDiskSizesPanics(vm) == ~vm.disks.err /\ \E i \in 1..Len(vm.disks.v) : vm.disks.v[i] = Nil

getDiskSizes(vm) == IF vm.disks.err THEN Nil ELSE Ptr(sumDisks(vm.disks.v))

(* getBenchmarkType and getBenchmark read *historyRecords[0].HID without a *)
(* nil check of the record or of its HID.                                  *)
getBenchmarkTypePanics(vm) ==
    /\ ~vm.hist.err
    /\ Len(vm.hist.v) > 0
    /\ (vm.hist.v[1] = Nil \/ Deref(vm.hist.v[1]).HID = Nil)

(* Variant: the benchmark type is not tested for being empty.              *)
getBenchmarkTypeNoEmptyTest(p, vm) ==
    IF ~vm.hist.err /\ Len(vm.hist.v) > 0
    THEN Ptr(MapGet(p.hostTemplateBenchmarkType, Deref(Deref(vm.hist.v[1]).HID), EmptyStr))
    ELSE Nil

getBenchmarkType(p, vm) ==
    IF ~vm.hist.err /\ Len(vm.hist.v) > 0
    THEN LET tbt == MapGet(p.hostTemplateBenchmarkType, Deref(Deref(vm.hist.v[1]).HID), EmptyStr)
         IN  IF tbt # EmptyStr THEN Ptr(tbt) ELSE Nil
    ELSE Nil

getBenchmark(p, vm) ==
    IF ~vm.hist.err /\ Len(vm.hist.v) > 0
    THEN LET tbv == MapGet(p.hostTemplateBenchmarkValue, Deref(Deref(vm.hist.v[1]).HID), EmptyStr)
         IN  IF tbv # EmptyStr /\ ~ParseFloat(tbv).err THEN Ptr(ParseFloat(tbv).v) ELSE Nil
    ELSE Nil

getImageID(p, vm) ==
    IF ~vm.disks.err /\ Len(vm.disks.v) # 0 /\ vm.disks.v[1] # Nil
    THEN LET iid == MapGet(p.imageTemplateCloudkeeperApplianceMpuri,
                           Deref(vm.disks.v[1]).ImageID, EmptyStr)
         IN  IF iid # EmptyStr THEN Ptr(iid) ELSE Nil
    ELSE Nil

getSiteName == Config.siteName

getCloudComputeService == checkValueErrStr(Ok(Config.cloudComputeService))

getCloudType == Ptr(Config.cloudType)

(***************************************************************************)
(* The pb.VmRecord literal of Preparation (lines 260-287).                 *)
(***************************************************************************)
VmRecord(p, vm, currentTime) ==
    LET sTime == getStartTime(vm).v
        eTime == getEndTime(vm)
        wallDuration == getWallDuration(vm, currentTime)
    IN  [VmUuid |-> getVMUUID(vm).v,
         SiteName |-> getSiteName,
         CloudComputeService |-> getCloudComputeService,
         MachineName |-> getMachineName(vm).v,
         LocalUserId |-> getLocalUserID(vm),
         LocalGroupId |-> getLocalGroupID(vm),
         GlobalUserName |-> getGlobalUserName(p, vm).v,
         Fqan |-> getFqan(vm),
         Status |-> getStatus(vm),
         StartTime |-> sTime,
         EndTime |-> eTime,
         SuspendDuration |-> getSuspendDuration(sTime, eTime, wallDuration),
         WallDuration |-> wallDuration,
         CpuDuration |-> wallDuration,
         CpuCount |-> getCPUCount(vm),
         NetworkType |-> getNetworkType,
         NetworkInbound |-> getNetworkInbound(vm),
         NetworkOutbound |-> getNetworkOutbound(vm),
         PublicIpCount |-> getPublicIPCount(vm),
         Memory |-> getMemory(vm),
         Disk |-> getDiskSizes(vm),
         BenchmarkType |-> getBenchmarkType(p, vm),
         Benchmark |-> getBenchmark(p, vm),
         StorageRecordId |-> Nil,
         ImageId |-> getImageID(p, vm),
         CloudType |-> getCloudType]

(* Error-level log entries written while the record literal is built.      *)
recordErrors(vm) ==
    (IF Config.siteName = EmptyStr THEN 1 ELSE 0)
    + (IF checkTime(vm.etime).err THEN 1 ELSE 0)
    + (IF vm.hist.err THEN 1 ELSE 0)
    + (IF Config.cloudType = EmptyStr THEN 1 ELSE 0)

(***************************************************************************)
(* Preparation up to the call of Writer.Write (lines 221-287): "abort"     *)
(* (logged, nothing written), "panic" (a nil dereference while the record  *)
(* is built) or "record".  acc is the resource: Nil for a nil VM.          *)
(***************************************************************************)
prepare(p, acc, currentTime) ==
    IF acc = Nil THEN [kind |-> "abort", errors |-> 1, why |-> "empty", record |-> Nil]
    ELSE LET vm == Deref(acc)
         IN  IF vm.id.err
             THEN [kind |-> "abort", errors |-> 1, why |-> "id", record |-> Nil]
             ELSE IF getVMUUID(vm).err
             THEN [kind |-> "abort", errors |-> 1, why |-> "uuid", record |-> Nil]
             ELSE IF getMachineName(vm).err
             THEN [kind |-> "abort", errors |-> 1, why |-> "name", record |-> Nil]
             ELSE IF getGlobalUserName(p, vm).err
             THEN [kind |-> "abort", errors |-> 1, why |-> "user", record |-> Nil]
             ELSE IF getStartTime(vm).err
             THEN [kind |-> "abort", errors |-> 1, why |-> "stime", record |-> Nil]
             ELSE IF getDiskSizesPanics(vm) \/ getBenchmarkTypePanics(vm)
             THEN [kind |-> "panic", errors |-> recordErrors(vm), why |-> "nil", record |-> Nil]
             ELSE [kind |-> "record", errors |-> recordErrors(vm), why |-> "",
                   record |-> Ptr(VmRecord(p, vm, currentTime))]

(***************************************************************************)
(* Building the reference tables (lines 74-215).  A user or image is       *)
(* [id, attr], a host [id, btype, bvalue, cluster], a cluster              *)
(* [id, btype, bvalue]; every field is a (value, error) result.            *)
(***************************************************************************)
(* Variant: an entity without an ID ends the loop.                         *)
RECURSIVE templateMapBreak(_, _)
templateMapBreak(m, entities) ==
    IF entities = <<>> THEN m
    ELSE LET e == Head(entities)
         IN  IF e.id.err THEN m
             ELSE templateMapBreak(MapPut(m, e.id.v, IF e.attr.err THEN Itoa(e.id.v) ELSE e.attr.v),
                                   Tail(entities))

RECURSIVE templateMap(_, _)
templateMap(m, entities) ==
    IF entities = <<>> THEN m
    ELSE LET e == Head(entities)
         IN  IF e.id.err THEN templateMap(m, Tail(entities))
             ELSE templateMap(MapPut(m, e.id.v, IF e.attr.err THEN Itoa(e.id.v) ELSE e.attr.v),
                              Tail(entities))

(* The loop of initializeUserTemplateIdentity, lines 83-98.                *)
userTemplateIdentityOf(users) == templateMap(MakeMap, users)

(* The loop of initializeImageTemplateCloudkeeperApplianceMpuri, 110-125.  *)
imageTemplateOf(images) == templateMap(MakeMap, images)

RECURSIVE idErrors(_)
idErrors(entities) ==
    IF entities = <<>> THEN 0
    ELSE (IF Head(entities).id.err THEN 1 ELSE 0) + idErrors(Tail(entities))

zeroBenchmark == [bType |-> EmptyStr, bValue |-> EmptyStr]

RECURSIVE clustersFold(_, _)
clustersFold(m, clusters) ==
    IF clusters = <<>> THEN m
    ELSE LET c == Head(clusters)
         IN  IF c.id.err THEN clustersFold(m, Tail(clusters))
             ELSE clustersFold(MapPut(m, c.id.v, [bType |-> c.btype.v, bValue |-> c.bvalue.v]),
                               Tail(clusters))

(* clustersMap after a successful listing, lines 192-214.                  *)
clustersMapOf(clusters) == clustersFold(MakeMap, clusters)

typeFromCluster(cm, host) ==
    IF host.cluster.err THEN EmptyStr ELSE MapGet(cm, host.cluster.v, zeroBenchmark).bType

valueFromCluster(cm, host) ==
    IF host.cluster.err THEN EmptyStr ELSE MapGet(cm, host.cluster.v, zeroBenchmark).bValue

(* Variant: the cluster's type is preferred to the host's own.             *)
hostTypeClusterFirst(cm, host) ==
    IF typeFromCluster(cm, host) # EmptyStr THEN typeFromCluster(cm, host) ELSE host.btype.v

hostType(cm, host) == IF host.btype.err THEN typeFromCluster(cm, host) ELSE host.btype.v

hostValue(cm, host) == IF host.bvalue.err THEN valueFromCluster(cm, host) ELSE host.bvalue.v

RECURSIVE hostTypeFold(_, _, _)
hostTypeFold(m, cm, hosts) ==
    IF hosts = <<>> THEN m
    ELSE IF Head(hosts).id.err THEN hostTypeFold(m, cm, Tail(hosts))
    ELSE hostTypeFold(MapPut(m, Head(hosts).id.v, hostType(cm, Head(hosts))), cm, Tail(hosts))

RECURSIVE hostValueFold(_, _, _)
hostValueFold(m, cm, hosts) ==
    IF hosts = <<>> THEN m
    ELSE IF Head(hosts).id.err THEN hostValueFold(m, cm, Tail(hosts))
    ELSE hostValueFold(MapPut(m, Head(hosts).id.v, hostValue(cm, Head(hosts))), cm, Tail(hosts))

(* Error entries of the host loop: one per unresolved host ID, one per     *)
(* call of typeFromCluster / valueFromCluster that finds no cluster ID.    *)
RECURSIVE hostErrors(_)
hostErrors(hosts) ==
    IF hosts = <<>> THEN 0
    ELSE LET h == Head(hosts)
         IN  (IF h.id.err THEN 1
              ELSE (IF h.btype.err /\ h.cluster.err THEN 1 ELSE 0)
                   + (IF h.bvalue.err /\ h.cluster.err THEN 1 ELSE 0))
             + hostErrors(Tail(hosts))

(***************************************************************************)
(* State.                                                                  *)
(*   tables   the four maps of the Preparer                                *)
(*   proc     "running", or "panicked" / "exited" once the process died    *)
(*   errLog   Error-level log entries per Preparation unit                 *)
(* Preparation units:                                                      *)
(*   res      the resource handed to each unit                             *)
(*   prepPc   where each unit is: "idle" (not submitted), "ready", "write" *)
(*            (about to call Writer.Write), "defer" (about to run          *)
(*            wg.Done), "done", or "panic" (it brought the process down)   *)
(*   prepOut  the record a unit has built and not yet written              *)
(*   writes   the records each unit has handed to Writer.Write, in order   *)
(*   wg       the orchestrator's wait group counter; wgDone counts each    *)
(*            unit's calls of wg.Done                                      *)
(*   now      the latest reading of the clock (time.Now)                   *)
(*   clockRead  currentTime of each unit's getWallDuration, once read      *)
(* Table build:                                                            *)
(*   reader   what the Reader's four listings return                       *)
(*   mapWg    the counter of the wait group handed to InitializeMaps       *)
(*   mapPc    where the caller, InitializeMaps and the three               *)
(*            sub-resolutions are                                          *)
(*   clusters the local clustersMap of initializeHostTemplateBenchmark     *)
(*   mapLog   Error-level log entries of the table build                   *)
(* Filter:                                                                 *)
(*   filtPc   where each Filtering invocation is                           *)
(*   filtChan the value on offer on the filtered channel                   *)
(*   filtered the resources received from the filtered channel, in order   *)
(*   filtWg   the filter wait group's counter; filtDone counts each        *)
(*            invocation's calls of wg.Done                                *)
(* Public IP count of one interface list: ipIn, ipOut.                     *)
(***************************************************************************)
VARIABLES tables, proc, errLog,
          res, prepPc, prepOut, writes, wg, wgDone, now, clockRead,
          reader, mapWg, mapPc, clusters, mapLog,
          filtPc, filtChan, filtered, filtWg, filtDone,
          ipIn, ipOut

prepVars == <<errLog, res, prepPc, prepOut, writes, wg, wgDone, now, clockRead>>
mapVars == <<reader, mapWg, mapPc, clusters, mapLog>>
filtVars == <<filtPc, filtChan, filtered, filtWg, filtDone>>
ipVars == <<ipIn, ipOut>>
vars == <<tables, proc, prepVars, mapVars, filtVars, ipVars>>

NumUnits == 2
MaxTicks == 1
MaxHist == 2
NowStart == 4

Units == 1..NumUnits

Bump(f, u, n) == [f EXCEPT ![u] = @ + n]

(***************************************************************************)
(* Preparation, lines 218-287: the resource is read and the record built.  *)
(* The clock has moved on to some t >= now when getWallDuration reads it.  *)
(* A nil dereference panics: the deferred wg.Done() of line 219 runs while *)
(* the goroutine unwinds, and the process dies of the unrecovered panic.   *)
(***************************************************************************)
PrepStart(u) ==
    /\ proc = "running"
    /\ prepPc[u] = "ready"
    /\ \E t \in now..(NowStart + MaxTicks) :
          LET out == prepare(tables, res[u], t)
          IN  /\ now' = t
              /\ clockRead' = [clockRead EXCEPT ![u] = IF out.kind = "abort" THEN Nil ELSE Ptr(t)]
              /\ errLog' = Bump(errLog, u, out.errors)
              /\ prepOut' = [prepOut EXCEPT ![u] = out.record]
              /\ proc' = IF out.kind = "panic" THEN "panicked" ELSE proc
              /\ prepPc' = [prepPc EXCEPT ![u] = IF out.kind = "record" THEN "write"
                                                  ELSE IF out.kind = "abort" THEN "defer"
                                                  ELSE "panic"]
              /\ wg' = IF out.kind = "panic" THEN wg - 1 ELSE wg
              /\ wgDone' = Bump(wgDone, u, IF out.kind = "panic" THEN 1 ELSE 0)
    /\ UNCHANGED <<tables, res, writes, mapVars, filtVars, ipVars>>

(* Variant: a failed Write is logged and tried again.                      *)
PrepWriteRetry(u) ==
    /\ proc = "running"
    /\ prepPc[u] = "write"
    /\ writes' = [writes EXCEPT ![u] = Append(@, Deref(prepOut[u]))]
    /\ \E failed \in BOOLEAN :
          /\ errLog' = Bump(errLog, u, IF failed THEN 1 ELSE 0)
          /\ prepOut' = [prepOut EXCEPT ![u] = IF failed /\ Len(writes[u]) = 0 THEN @ ELSE Nil]
          /\ prepPc' = [prepPc EXCEPT ![u] = IF failed /\ Len(writes[u]) = 0 THEN "write"
                                              ELSE "defer"]
    /\ UNCHANGED <<tables, proc, res, wg, wgDone, now, clockRead, mapVars, filtVars, ipVars>>

(* Preparation, lines 289-291: Writer.Write returns nil or an error.       *)
PrepWrite(u) ==
    /\ proc = "running"
    /\ prepPc[u] = "write"
    /\ writes' = [writes EXCEPT ![u] = Append(@, Deref(prepOut[u]))]
    /\ \E failed \in BOOLEAN : errLog' = Bump(errLog, u, IF failed THEN 1 ELSE 0)
    /\ prepOut' = [prepOut EXCEPT ![u] = Nil]
    /\ prepPc' = [prepPc EXCEPT ![u] = "defer"]
    /\ UNCHANGED <<tables, proc, res, wg, wgDone, now, clockRead, mapVars, filtVars, ipVars>>

(* Variant: Done is called in the body as well as deferred.                *)
PrepDoneTwice(u) ==
    /\ proc = "running"
    /\ prepPc[u] = "defer"
    /\ wg' = wg - 2
    /\ wgDone' = Bump(wgDone, u, 2)
    /\ prepPc' = [prepPc EXCEPT ![u] = "done"]
    /\ UNCHANGED <<tables, proc, errLog, res, prepOut, writes, now, clockRead,
                   mapVars, filtVars, ipVars>>

(* Variant: the wait group is decremented twice (a Done in the body       *)
(* beside the deferred one).                                               *)
PrepDoneCountsTwo(u) ==
    /\ proc = "running"
    /\ prepPc[u] = "defer"
    /\ wg' = wg - 2
    /\ wgDone' = Bump(wgDone, u, 1)
    /\ prepPc' = [prepPc EXCEPT ![u] = "done"]
    /\ UNCHANGED <<tables, proc, errLog, res, prepOut, writes, now, clockRead,
                   mapVars, filtVars, ipVars>>

(* Preparation, line 219: the deferred wg.Done().                          *)
PrepDone(u) ==
    /\ proc = "running"
    /\ prepPc[u] = "defer"
    /\ wg' = wg - 1
    /\ wgDone' = Bump(wgDone, u, 1)
    /\ prepPc' = [prepPc EXCEPT ![u] = "done"]
    /\ UNCHANGED <<tables, proc, errLog, res, prepOut, writes, now, clockRead,
                   mapVars, filtVars, ipVars>>

(***************************************************************************)
(* Inputs of the Preparation units.                                        *)
(***************************************************************************)
goodRecord == Ptr([HID |-> Ptr(1), RSTime |-> Ptr(1), RETime |-> Ptr(3)])
openRecord == Ptr([HID |-> Ptr(1), RSTime |-> Ptr(2), RETime |-> Ptr(0)])
noHostRecord == Ptr([HID |-> Nil, RSTime |-> Ptr(1), RETime |-> Ptr(3)])

goodDisk == Ptr([Size |-> 5, ImageID |-> 1])

publicNIC == [IP |-> <<8, 8, 8, 8>>, IP6Global |-> Nil]

BaseVM ==
    [id |-> Ok(42), deployID |-> Ok("vm-42"), user |-> Ok(1), group |-> Ok(1),
     state |-> Ok(3), gname |-> Ok(<<"g">>), stime |-> Ok(Ptr(1)), etime |-> Ok(Nil),
     hist |-> Ok(<<goodRecord>>), vcpu |-> Ok(2), nettx |-> Ok(<<"1", "2">>),
     netrx |-> Ok(<<"7">>), memory |-> Ok(<<"5">>), nics |-> Ok(<<publicNIC>>),
     disks |-> Ok(<<goodDisk>>)]

(* Outcomes of the optional lookups other than history and disks.          *)
OptProfiles ==
    { [group |-> Ok(1), state |-> Ok(3), gname |-> Ok(<<"g">>), vcpu |-> Ok(2),
       nettx |-> Ok(<<"1", "2">>), netrx |-> Ok(<<"7">>), memory |-> Ok(<<"5">>),
       nics |-> Ok(<<publicNIC>>), etime |-> Ok(Ptr(3))],
      [group |-> Fail(0), state |-> Fail(0), gname |-> Fail(EmptyStr), vcpu |-> Fail(0),
       nettx |-> Fail(EmptyStr), netrx |-> Fail(EmptyStr), memory |-> Fail(EmptyStr),
       nics |-> Fail(<<>>), etime |-> Fail(Nil)],
      [group |-> Ok(0), state |-> Ok(6), gname |-> Ok(EmptyStr), vcpu |-> Fail(0),
       nettx |-> Ok(<<"x">>), netrx |-> Ok(EmptyStr), memory |-> Ok(<<"-", "1">>),
       nics |-> Ok(<<>>), etime |-> Ok(Nil)] }

WithOpt(vm, o) ==
    [vm EXCEPT !.group = o.group, !.state = o.state, !.gname = o.gname, !.vcpu = o.vcpu,
               !.nettx = o.nettx, !.netrx = o.netrx, !.memory = o.memory, !.nics = o.nics,
               !.etime = o.etime]

IdResults == {Ok(42), Fail(0)}
DeployResults == {Ok("vm-42"), Fail("")}
(* User 1 has an identity in builtTables, user 2 has no entry.             *)
UserResults == {Ok(1), Ok(2), Fail(0)}
(* A time, no time and no error, a lookup error, a time the conversion     *)
(* to a timestamp rejects.                                                 *)
STimeResults == {Ok(Ptr(1)), Ok(Nil), Fail(Nil), Ok(Ptr(maxTimestampSeconds))}
HistResults == {Fail(<<>>), Ok(<<>>), Ok(<<goodRecord>>), Ok(<<Nil>>), Ok(<<noHostRecord>>)}
DiskResults == {Fail(<<>>), Ok(<<goodDisk>>), Ok(<<goodDisk, Nil>>)}

(***************************************************************************)
(* The resources of Spec: the nil virtual machine; every outcome of the    *)
(* mandatory lookups (ID, deployment name, user, start time) under each    *)
(* profile of optional outcomes; and, for the resources that pass the      *)
(* mandatory checks, every outcome of the history and disk lookups too     *)
(* (the code reads these only after the mandatory checks have passed).     *)
(***************************************************************************)
PrepResources ==
    {Nil}
    \cup
    { Ptr([WithOpt(BaseVM, o) EXCEPT !.id = i, !.deployID = d, !.user = us, !.stime = st]) :
        i \in IdResults, d \in DeployResults, us \in UserResults, st \in STimeResults,
        o \in OptProfiles }
    \cup
    { Ptr([WithOpt(BaseVM, o) EXCEPT !.user = us, !.stime = st, !.hist = h, !.disks = dk]) :
        us \in {Ok(1), Ok(2)}, st \in {Ok(Ptr(1)), Ok(Nil)},
        h \in HistResults, dk \in DiskResults, o \in OptProfiles }

(***************************************************************************)
(* The resources of SpecWall: start and end times and histories of up to   *)
(* MaxHist records, each nil or with its start and end absent or present;  *)
(* an end of Unix time 0 is the running interval.                          *)
(***************************************************************************)
HistRecords ==
    {Nil} \cup { Ptr([HID |-> Ptr(1), RSTime |-> rs, RETime |-> re]) :
                   rs \in {Nil, Ptr(1)}, re \in {Nil, Ptr(0), Ptr(3)} }

RECURSIVE SeqsUpTo(_, _)
SeqsUpTo(S, n) ==
    IF n = 0 THEN {<<>>}
    ELSE SeqsUpTo(S, n - 1) \cup {Append(q, x) : q \in {r \in SeqsUpTo(S, n - 1) : Len(r) = n - 1}, x \in S}

WallResources ==
    { Ptr([BaseVM EXCEPT !.stime = st, !.etime = et, !.hist = h]) :
        st \in {Ok(Ptr(1)), Ok(Nil)},
        et \in {Ok(Ptr(2)), Ok(Nil)},
        h \in {Fail(<<>>)} \cup {Ok(q) : q \in SeqsUpTo(HistRecords, MaxHist)} }

(* Tables as a finished build leaves them, and as a build whose listings   *)
(* all failed leaves them.                                                 *)
builtTables ==
    [userTemplateIdentity |-> MapPut(MapPut(MakeMap, 1, <<"a">>), 3, EmptyStr),
     imageTemplateCloudkeeperApplianceMpuri |-> MapPut(MakeMap, 1, <<"u">>),
     hostTemplateBenchmarkType |-> MapPut(MakeMap, 1, <<"H">>),
     hostTemplateBenchmarkValue |-> MapPut(MakeMap, 1, <<"9", ".", "5">>)]

nilTables ==
    [userTemplateIdentity |-> NilMap,
     imageTemplateCloudkeeperApplianceMpuri |-> NilMap,
     hostTemplateBenchmarkType |-> NilMap,
     hostTemplateBenchmarkValue |-> NilMap]

mapIdle ==
    /\ reader = [users |-> Fail(<<>>), images |-> Fail(<<>>), hosts |-> Fail(<<>>),
                 clusters |-> Fail(<<>>)]
    /\ mapWg = 0
    /\ mapPc = [q \in {"caller", "init", "user", "image", "host"} |-> "done"]
    /\ clusters = NilMap
    /\ mapLog = 0

filtIdle ==
    /\ filtPc = <<>>
    /\ filtChan = Nil
    /\ filtered = <<>>
    /\ filtWg = 0
    /\ filtDone = <<>>

ipIdle ==
    /\ ipIn = Fail(<<>>)
    /\ ipOut = [done |-> FALSE, v |-> Nil]

(* The orchestrator has added the units of `submitted` to its wait group   *)
(* and started them.                                                       *)
prepStart(submitted) ==
    /\ proc = "running"
    /\ errLog = [u \in Units |-> 0]
    /\ prepPc = [u \in Units |-> IF u \in submitted THEN "ready" ELSE "idle"]
    /\ prepOut = [u \in Units |-> Nil]
    /\ writes = [u \in Units |-> <<>>]
    /\ wg = Cardinality(submitted)
    /\ wgDone = [u \in Units |-> 0]
    /\ now = NowStart
    /\ clockRead = [u \in Units |-> Nil]

(***************************************************************************)
(* Spec: NumUnits concurrent Preparation units over built tables.  The     *)
(* first unit's resource ranges over PrepResources, the others prepare     *)
(* BaseVM.                                                                 *)
(***************************************************************************)
Init ==
    /\ tables = builtTables
    /\ prepStart(Units)
    /\ \E r \in PrepResources : res = [u \in Units |-> IF u = 1 THEN r ELSE Ptr(BaseVM)]
    /\ mapIdle /\ filtIdle /\ ipIdle

Next ==
    \/ \E u \in Units : PrepStart(u)
    \/ \E u \in Units : PrepWrite(u)
    \/ \E u \in Units : PrepDone(u)

Spec == Init /\ [][Next]_vars

(***************************************************************************)
(* SpecWall: one resource of WallResources is prepared twice, by units 1   *)
(* and 2, at clock readings that may differ.                               *)
(***************************************************************************)
InitWall ==
    /\ tables = builtTables
    /\ prepStart({1, 2})
    /\ \E r \in WallResources : res = [u \in Units |-> r]
    /\ mapIdle /\ filtIdle /\ ipIdle

SpecWall == InitWall /\ [][Next]_vars

(***************************************************************************)
(* SpecLookup: unit 1 prepares a resource whose user, first-disk image and *)
(* first-history host are in the tables, missing from them, or not         *)
(* available; unit 2 prepares BaseVM.  The tables are the built ones or    *)
(* the ones a build with failed listings leaves (nil maps).                *)
(***************************************************************************)
otherDisk == Ptr([Size |-> 5, ImageID |-> 2])
otherHostRecord == Ptr([HID |-> Ptr(2), RSTime |-> Ptr(1), RETime |-> Ptr(3)])

(* Users 1 (identity "a"), 2 (no entry) and 3 (empty entry) of             *)
(* builtTables, and a failed user lookup.                                  *)
LookupResources ==
    { Ptr([BaseVM EXCEPT !.user = us, !.disks = dk, !.hist = h]) :
        us \in {Ok(1), Ok(2), Ok(3), Fail(0)},
        dk \in {Fail(<<>>), Ok(<<>>), Ok(<<goodDisk>>), Ok(<<otherDisk>>)},
        h \in {Fail(<<>>), Ok(<<>>), Ok(<<goodRecord>>), Ok(<<otherHostRecord>>)} }

InitLookup ==
    /\ tables \in {builtTables, nilTables}
    /\ prepStart({1, 2})
    /\ \E r \in LookupResources : res = [u \in Units |-> IF u = 1 THEN r ELSE Ptr(BaseVM)]
    /\ mapIdle /\ filtIdle /\ ipIdle

SpecLookup == InitLookup /\ [][Next]_vars

(***************************************************************************)
(* SpecIP: getPublicIPCount on interface lists of up to MaxNICs            *)
(* interfaces.  An interface has an IP (nil, IPv4, IPv4 in 16-byte form,   *)
(* or IPv6) and may have a global IPv6 address.                            *)
(***************************************************************************)
MaxNICs == 2

mapped(ip4) == <<0, 0, 0, 0, 0, 0, 0, 0, 0, 0, 255, 255>> \o ip4

v6Global == <<32, 1, 13, 184, 0, 0, 0, 0, 0, 0, 0, 0, 0, 0, 0, 1>>

IPs ==
    { Nil, <<10, 1, 2, 3>>, <<172, 16, 0, 1>>, <<172, 31, 9, 9>>, <<172, 15, 0, 1>>,
      <<172, 32, 0, 1>>, <<192, 168, 1, 1>>, <<192, 169, 1, 1>>, <<127, 0, 0, 1>>,
      <<169, 254, 1, 1>>, <<224, 0, 0, 1>>, <<8, 8, 8, 8>>, mapped(<<8, 8, 8, 8>>),
      mapped(<<10, 0, 0, 1>>), v6Global }

NICs == { [IP |-> ip, IP6Global |-> g] : ip \in IPs, g \in {Nil, Ptr(v6Global)} }

IPInputs == {Fail(<<>>)} \cup {Ok(q) : q \in SeqsUpTo(NICs, MaxNICs)}

prepIdle ==
    /\ errLog = <<>> /\ res = <<>> /\ prepPc = <<>> /\ prepOut = <<>> /\ writes = <<>>
    /\ wg = 0 /\ wgDone = <<>> /\ now = NowStart /\ clockRead = <<>>

InitIP ==
    /\ tables = nilTables
    /\ proc = "running"
    /\ prepIdle /\ mapIdle /\ filtIdle
    /\ ipIn \in IPInputs
    /\ ipOut = [done |-> FALSE, v |-> Nil]

(* getPublicIPCount(vm), lines 457-471, on a VM whose NICs() gives ipIn.   *)
IPCount ==
    /\ ~ipOut.done
    /\ ipOut' = [done |-> TRUE, v |-> getPublicIPCount([BaseVM EXCEPT !.nics = ipIn])]
    /\ UNCHANGED <<tables, proc, prepVars, mapVars, filtVars, ipIn>>

NextIP == IPCount

SpecIP == InitIP /\ [][NextIP]_vars

(***************************************************************************)
(* SpecFilter: NumFilters concurrent invocations of Filter.Filtering, one  *)
(* per resource (invocation i filters resource i), sending on the          *)
(* unbuffered channel `filtered`, and the receiver of that channel.        *)
(*   filtPc   "send" (at line 22), "defer" (the send is done), "done"      *)
(*   filtChan the value a sender is handing over, with its sender, or Nil  *)
(***************************************************************************)
NumFilters == 3

Filters == 1..NumFilters

InitFilter ==
    /\ tables = nilTables
    /\ proc = "running"
    /\ prepIdle /\ mapIdle /\ ipIdle
    /\ filtPc = [i \in Filters |-> "send"]
    /\ filtChan = Nil
    /\ filtered = <<>>
    /\ filtWg = NumFilters
    /\ filtDone = [i \in Filters |-> 0]

(* Filtering, line 22: filtered <- res.  The send completes when the       *)
(* receiver takes the value.                                               *)
FilterSend(i) ==
    /\ filtPc[i] = "send"
    /\ filtChan = Nil
    /\ filtChan' = Ptr([from |-> i, res |-> i])
    /\ UNCHANGED <<tables, proc, prepVars, mapVars, ipVars, filtPc, filtered, filtWg, filtDone>>

(* The receiver of the filtered channel takes the value on offer.          *)
Receive ==
    /\ filtChan # Nil
    /\ filtered' = Append(filtered, Deref(filtChan).res)
    /\ filtPc' = [filtPc EXCEPT ![Deref(filtChan).from] = "defer"]
    /\ filtChan' = Nil
    /\ UNCHANGED <<tables, proc, prepVars, mapVars, ipVars, filtWg, filtDone>>

(* Variant of FilterDone: the completion signal is given twice.            *)
FilterDoneTwice(i) ==
    /\ filtPc[i] = "defer"
    /\ filtWg' = filtWg - 2
    /\ filtDone' = Bump(filtDone, i, 2)
    /\ filtPc' = [filtPc EXCEPT ![i] = "done"]
    /\ UNCHANGED <<tables, proc, prepVars, mapVars, ipVars, filtChan, filtered>>

(* Filtering, line 20: the deferred wg.Done().                             *)
FilterDone(i) ==
    /\ filtPc[i] = "defer"
    /\ filtWg' = filtWg - 1
    /\ filtDone' = Bump(filtDone, i, 1)
    /\ filtPc' = [filtPc EXCEPT ![i] = "done"]
    /\ UNCHANGED <<tables, proc, prepVars, mapVars, ipVars, filtChan, filtered>>

NextFilter ==
    \/ \E i \in Filters : FilterSend(i)
    \/ Receive
    \/ \E i \in Filters : FilterDone(i)

(* Every goroutine that can run is eventually run.                         *)
SpecFilter == InitFilter /\ [][NextFilter]_vars /\ WF_vars(NextFilter)

(***************************************************************************)
(* SpecMaps: a caller adds one unit to the wait group, starts              *)
(* InitializeMaps and waits; InitializeMaps starts the three               *)
(* sub-resolutions.  mapPc gives each one's place:                         *)
(*   caller  "add", "call", "wait", "released"                             *)
(*   init    "idle", "add", "goUser", "goImage", "goHost", "defer", "done" *)
(*   user, image   "idle", "list", "build", "defer", "done"                *)
(*   host    "idle", "list", "clusters", "build", "defer", "done"          *)
(***************************************************************************)
MaxUsers == 2
MaxHosts == 1
MaxClusters == 1

(* Lists whose entities with a resolvable ID have pairwise distinct IDs.   *)
distinctIDs(q) ==
    \A i, j \in 1..Len(q) : (i # j /\ ~q[i].id.err /\ ~q[j].id.err) => q[i].id.v # q[j].id.v

UserObjs ==
    {[id |-> Fail(0), attr |-> Fail(EmptyStr)], [id |-> Ok(1), attr |-> Ok(EmptyStr)]}
    \cup {[id |-> Ok(i), attr |-> a] : i \in {1, 12}, a \in {Ok(<<"a">>), Fail(EmptyStr)}}

(* Host 1 with every combination of own attributes and cluster (1, the     *)
(* never listed 2, none); host 2 with its own attributes and without.      *)
HostObjs ==
    {[id |-> Fail(0), btype |-> Fail(EmptyStr), bvalue |-> Fail(EmptyStr), cluster |-> Fail(0)]}
    \cup {[id |-> Ok(1), btype |-> t, bvalue |-> b, cluster |-> c] :
            t \in {Ok(<<"H">>), Fail(EmptyStr)},
            b \in {Ok(<<"9", ".", "5">>), Fail(EmptyStr)}, c \in {Ok(1), Ok(2), Fail(0)}}
    \cup {[id |-> Ok(2), btype |-> Ok(<<"H">>), bvalue |-> Ok(<<"9", ".", "5">>), cluster |-> Ok(1)],
          [id |-> Ok(2), btype |-> Fail(EmptyStr), bvalue |-> Fail(EmptyStr), cluster |-> Ok(1)]}

ClusterObjs ==
    {[id |-> Fail(0), btype |-> Fail(EmptyStr), bvalue |-> Fail(EmptyStr)],
     [id |-> Ok(3), btype |-> Ok(<<"D">>), bvalue |-> Ok(<<"8">>)]}
    \cup {[id |-> Ok(1), btype |-> t, bvalue |-> b] :
            t \in {Ok(<<"C">>), Fail(EmptyStr)}, b \in {Ok(<<"7">>), Fail(EmptyStr)}}

listings(objs, n) == {Fail(<<>>)} \cup {Ok(q) : q \in {r \in SeqsUpTo(objs, n) : distinctIDs(r)}}

someUsers == Ok(<<[id |-> Ok(1), attr |-> Ok(<<"a">>)]>>)
someImages == Ok(<<[id |-> Ok(1), attr |-> Fail(EmptyStr)]>>)
someHosts == Ok(<<[id |-> Ok(1), btype |-> Fail(EmptyStr), bvalue |-> Fail(EmptyStr),
                   cluster |-> Ok(1)]>>)
someClusters == Ok(<<[id |-> Ok(1), btype |-> Ok(<<"C">>), bvalue |-> Ok(<<"7">>)]>>)

(* What the Reader returns: every user listing beside fixed other          *)
(* listings; every host listing with every cluster listing; every          *)
(* combination of failed and successful listings.                          *)
ReaderResults ==
    {[users |-> u, images |-> someImages, hosts |-> someHosts, clusters |-> someClusters] :
        u \in listings(UserObjs, MaxUsers)}
    \cup
    {[users |-> someUsers, images |-> someImages, hosts |-> h, clusters |-> c] :
        h \in listings(HostObjs, MaxHosts), c \in listings(ClusterObjs, MaxClusters)}
    \cup
    {[users |-> u, images |-> i, hosts |-> h, clusters |-> c] :
        u \in {someUsers, Fail(<<>>)}, i \in {someImages, Fail(<<>>)},
        h \in {someHosts, Fail(<<>>)}, c \in {someClusters, Fail(<<>>)}}

InitMaps ==
    /\ tables = nilTables
    /\ proc = "running"
    /\ prepIdle /\ filtIdle /\ ipIdle
    /\ reader \in ReaderResults
    /\ mapWg = 0
    /\ mapPc = [q \in {"caller", "init", "user", "image", "host"} |->
                   IF q = "caller" THEN "add" ELSE "idle"]
    /\ clusters = NilMap
    /\ mapLog = 0

goto(q, l) == mapPc' = [mapPc EXCEPT ![q] = l]

(* The caller: mapWg.Add(1).                                               *)
CallerAdd ==
    /\ proc = "running" /\ mapPc["caller"] = "add"
    /\ mapWg' = mapWg + 1
    /\ goto("caller", "call")
    /\ UNCHANGED <<tables, proc, prepVars, filtVars, ipVars, reader, clusters, mapLog>>

(* The caller starts InitializeMaps(mapWg).                                *)
CallerCall ==
    /\ proc = "running" /\ mapPc["caller"] = "call"
    /\ mapPc' = [mapPc EXCEPT !["caller"] = "wait", !["init"] = "add"]
    /\ UNCHANGED <<tables, proc, prepVars, filtVars, ipVars, reader, mapWg, clusters, mapLog>>

(* The caller's mapWg.Wait() returns.                                      *)
CallerWait ==
    /\ proc = "running" /\ mapPc["caller"] = "wait"
    /\ mapWg = 0
    /\ goto("caller", "released")
    /\ UNCHANGED <<tables, proc, prepVars, filtVars, ipVars, reader, mapWg, clusters, mapLog>>

(* Variant of InitAdd: only two units are added.                           *)
InitAddTwo ==
    /\ proc = "running" /\ mapPc["init"] = "add"
    /\ mapWg' = mapWg + 2
    /\ goto("init", "goUser")
    /\ UNCHANGED <<tables, proc, prepVars, filtVars, ipVars, reader, clusters, mapLog>>

(* InitializeMaps, line 68: mapWg.Add(3).                                  *)
InitAdd ==
    /\ proc = "running" /\ mapPc["init"] = "add"
    /\ mapWg' = mapWg + 3
    /\ goto("init", "goUser")
    /\ UNCHANGED <<tables, proc, prepVars, filtVars, ipVars, reader, clusters, mapLog>>

(* InitializeMaps, lines 69-71: the three go statements.                   *)
InitGoUser ==
    /\ proc = "running" /\ mapPc["init"] = "goUser"
    /\ mapPc' = [mapPc EXCEPT !["init"] = "goImage", !["user"] = "list"]
    /\ UNCHANGED <<tables, proc, prepVars, filtVars, ipVars, reader, mapWg, clusters, mapLog>>

InitGoImage ==
    /\ proc = "running" /\ mapPc["init"] = "goImage"
    /\ mapPc' = [mapPc EXCEPT !["init"] = "goHost", !["image"] = "list"]
    /\ UNCHANGED <<tables, proc, prepVars, filtVars, ipVars, reader, mapWg, clusters, mapLog>>

InitGoHost ==
    /\ proc = "running" /\ mapPc["init"] = "goHost"
    /\ mapPc' = [mapPc EXCEPT !["init"] = "defer", !["host"] = "list"]
    /\ UNCHANGED <<tables, proc, prepVars, filtVars, ipVars, reader, mapWg, clusters, mapLog>>

(* The deferred mapWg.Done() of InitializeMaps (line 66) and of the three  *)
(* sub-resolutions (lines 75, 102, 129).                                   *)
MapDone(q) ==
    /\ proc = "running" /\ mapPc[q] = "defer"
    /\ mapWg' = mapWg - 1
    /\ goto(q, "done")
    /\ UNCHANGED <<tables, proc, prepVars, filtVars, ipVars, reader, clusters, mapLog>>

(* initializeUserTemplateIdentity, lines 77-81: ListAllUsers.              *)
UserList ==
    /\ proc = "running" /\ mapPc["user"] = "list"
    /\ IF reader.users.err
       THEN mapLog' = mapLog + 1 /\ goto("user", "defer")
       ELSE mapLog' = mapLog /\ goto("user", "build")
    /\ UNCHANGED <<tables, proc, prepVars, filtVars, ipVars, reader, mapWg, clusters>>

(* initializeUserTemplateIdentity, lines 83-98: the map and its loop.      *)
UserBuild ==
    /\ proc = "running" /\ mapPc["user"] = "build"
    /\ tables' = [tables EXCEPT !.userTemplateIdentity = userTemplateIdentityOf(reader.users.v)]
    /\ mapLog' = mapLog + idErrors(reader.users.v)
    /\ goto("user", "defer")
    /\ UNCHANGED <<proc, prepVars, filtVars, ipVars, reader, mapWg, clusters>>

(* initializeImageTemplateCloudkeeperApplianceMpuri, lines 104-108.        *)
ImageList ==
    /\ proc = "running" /\ mapPc["image"] = "list"
    /\ IF reader.images.err
       THEN mapLog' = mapLog + 1 /\ goto("image", "defer")
       ELSE mapLog' = mapLog /\ goto("image", "build")
    /\ UNCHANGED <<tables, proc, prepVars, filtVars, ipVars, reader, mapWg, clusters>>

(* Variant: the image sub-resolution stores its map in the identity field. *)
ImageBuildIntoIdentity ==
    /\ proc = "running" /\ mapPc["image"] = "build"
    /\ tables' = [tables EXCEPT !.userTemplateIdentity = imageTemplateOf(reader.images.v)]
    /\ mapLog' = mapLog + idErrors(reader.images.v)
    /\ goto("image", "defer")
    /\ UNCHANGED <<proc, prepVars, filtVars, ipVars, reader, mapWg, clusters>>

(* initializeImageTemplateCloudkeeperApplianceMpuri, lines 110-125.        *)
ImageBuild ==
    /\ proc = "running" /\ mapPc["image"] = "build"
    /\ tables' = [tables EXCEPT !.imageTemplateCloudkeeperApplianceMpuri =
                                    imageTemplateOf(reader.images.v)]
    /\ mapLog' = mapLog + idErrors(reader.images.v)
    /\ goto("image", "defer")
    /\ UNCHANGED <<proc, prepVars, filtVars, ipVars, reader, mapWg, clusters>>

(* initializeHostTemplateBenchmark, lines 131-135: ListAllHosts.           *)
HostList ==
    /\ proc = "running" /\ mapPc["host"] = "list"
    /\ IF reader.hosts.err
       THEN mapLog' = mapLog + 1 /\ goto("host", "defer")
       ELSE mapLog' = mapLog /\ goto("host", "clusters")
    /\ UNCHANGED <<tables, proc, prepVars, filtVars, ipVars, reader, mapWg, clusters>>

(* Variant: a failed ListAllClusters is logged and the build goes on with  *)
(* an empty clusters map.                                                  *)
HostClustersNotFatal ==
    /\ proc = "running" /\ mapPc["host"] = "clusters"
    /\ clusters' = IF reader.clusters.err THEN MakeMap ELSE clustersMapOf(reader.clusters.v)
    /\ mapLog' = mapLog + (IF reader.clusters.err THEN 1 ELSE idErrors(reader.clusters.v))
    /\ goto("host", "build")
    /\ UNCHANGED <<tables, proc, prepVars, filtVars, ipVars, reader, mapWg>>

(* initializeHostTemplateBenchmark, line 137: clustersMap().  A failed     *)
(* ListAllClusters is logged with Fatal, which exits the process.          *)
HostClusters ==
    /\ proc = "running" /\ mapPc["host"] = "clusters"
    /\ IF reader.clusters.err
       THEN /\ proc' = "exited"
            /\ UNCHANGED <<clusters, mapLog, mapPc>>
       ELSE /\ clusters' = clustersMapOf(reader.clusters.v)
            /\ mapLog' = mapLog + idErrors(reader.clusters.v)
            /\ goto("host", "build")
            /\ proc' = proc
    /\ UNCHANGED <<tables, prepVars, filtVars, ipVars, reader, mapWg>>

(* initializeHostTemplateBenchmark, lines 139-163: the maps and the loop.  *)
HostBuild ==
    /\ proc = "running" /\ mapPc["host"] = "build"
    /\ tables' = [tables EXCEPT
                    !.hostTemplateBenchmarkType = hostTypeFold(MakeMap, clusters, reader.hosts.v),
                    !.hostTemplateBenchmarkValue = hostValueFold(MakeMap, clusters, reader.hosts.v)]
    /\ mapLog' = mapLog + hostErrors(reader.hosts.v)
    /\ goto("host", "defer")
    /\ UNCHANGED <<proc, prepVars, filtVars, ipVars, reader, mapWg, clusters>>

NextMaps ==
    \/ CallerAdd
    \/ CallerCall
    \/ CallerWait
    \/ InitAdd
    \/ InitGoUser
    \/ InitGoImage
    \/ InitGoHost
    \/ \E q \in {"init", "user", "image", "host"} : MapDone(q)
    \/ UserList
    \/ UserBuild
    \/ ImageList
    \/ ImageBuild
    \/ HostList
    \/ HostClusters
    \/ HostBuild

(* Every goroutine that can run is eventually run.                         *)
SpecMaps == InitMaps /\ [][NextMaps]_vars /\ WF_vars(NextMaps)

(***************************************************************************)
(* SpecRun: a whole run, for each outcome of the host and cluster listings *)
(* beside user and image listings that succeed or fail, singly or both.    *)
(* The caller builds the tables as in SpecMaps;                            *)
(* once released it adds each unit to its wait group and starts its        *)
(* Preparation, waits for the wait group and calls Finish.  mapPc of the   *)
(* caller goes on from "released" to "finished".                           *)
(***************************************************************************)
InitRun ==
    /\ tables = nilTables
    /\ prepStart({})
    /\ \E r \in {Nil, Ptr(BaseVM), Ptr([BaseVM EXCEPT !.user = Fail(0)])} :
          res = [u \in Units |-> IF u = 1 THEN r ELSE Ptr(BaseVM)]
    /\ reader \in
          {[users |-> ui[1], images |-> ui[2], hosts |-> h, clusters |-> c] :
              ui \in {<<someUsers, someImages>>, <<Fail(<<>>), Fail(<<>>)>>},
              h \in {someHosts, Fail(<<>>)}, c \in {someClusters, Fail(<<>>)}}
          \cup
          {[users |-> ui[1], images |-> ui[2], hosts |-> someHosts, clusters |-> someClusters] :
              ui \in {<<someUsers, Fail(<<>>)>>, <<Fail(<<>>), someImages>>}}
    /\ mapWg = 0
    /\ mapPc = [q \in {"caller", "init", "user", "image", "host"} |->
                   IF q = "caller" THEN "add" ELSE "idle"]
    /\ clusters = NilMap
    /\ mapLog = 0
    /\ filtIdle /\ ipIdle

(* The caller, released from the build: wg.Add(1) and go Preparation for   *)
(* the next resource.                                                      *)
CallerDispatch(u) ==
    /\ proc = "running" /\ mapPc["caller"] = "released"
    /\ prepPc[u] = "idle" /\ \A v \in Units : v < u => prepPc[v] # "idle"
    /\ wg' = wg + 1
    /\ prepPc' = [prepPc EXCEPT ![u] = "ready"]
    /\ UNCHANGED <<tables, proc, errLog, res, prepOut, writes, wgDone, now, clockRead,
                   mapVars, filtVars, ipVars>>

(* The caller, with every unit started: wg.Wait() returns and Finish is    *)
(* called (lines 301-303).                                                 *)
CallerFinish ==
    /\ proc = "running" /\ mapPc["caller"] = "released"
    /\ \A u \in Units : prepPc[u] # "idle"
    /\ wg = 0
    /\ goto("caller", "finished")
    /\ UNCHANGED <<tables, proc, prepVars, filtVars, ipVars, reader, mapWg, clusters, mapLog>>

NextRun ==
    \/ NextMaps
    \/ Next
    \/ \E u \in Units : CallerDispatch(u)
    \/ CallerFinish

SpecRun == InitRun /\ [][NextRun]_vars /\ WF_vars(NextRun)

(***************************************************************************)
(* Properties of the Preparation units.                                    *)
(***************************************************************************)
vmOf(u) == Deref(res[u])

(* The body of unit u has returned (only the deferred Done may be left).   *)
returned(u) == prepPc[u] \in {"defer", "done"}

startTimeResolvable(vm) ==
    ~vm.stime.err /\ vm.stime.v # Nil /\ ~TimestampProto(Deref(vm.stime.v)).err

mandatoryResolvable(vm) == ~vm.id.err /\ ~vm.deployID.err /\ startTimeResolvable(vm)

(* No disk of the list is nil, and the first history record, if any, is    *)
(* not nil and names a host.                                               *)
nilFree(vm) ==
    /\ vm.disks.err \/ \A i \in 1..Len(vm.disks.v) : vm.disks.v[i] # Nil
    /\ vm.hist.err \/ vm.hist.v = <<>>
          \/ (vm.hist.v[1] # Nil /\ Deref(vm.hist.v[1]).HID # Nil)

exactlyOneWrite(u) ==
    /\ Len(writes[u]) <= 1
    /\ prepPc[u] # "panic"
    /\ returned(u) => Len(writes[u]) = 1

C2_AsStated ==
    \A u \in Units :
        (res[u] # Nil /\ ~mandatoryResolvable(vmOf(u)) /\ prepPc[u] = "done")
            => (Len(writes[u]) = 0 /\ errLog[u] = 1)

(***************************************************************************)
(* Wall and suspend durations.                                             *)
(***************************************************************************)
RECURSIVE SumOver(_, _)
SumOver(I, f) ==
    IF I = {} THEN 0
    ELSE LET i == CHOOSE j \in I : TRUE IN f[i] + SumOver(I \ {i}, f)

hasStart(h, i) == h[i] # Nil /\ Deref(h[i]).RSTime # Nil
hasEnd(h, i) == h[i] # Nil /\ Deref(h[i]).RETime # Nil
startOf(h, i) == Deref(Deref(h[i]).RSTime)
endOf(h, i) == Deref(Deref(h[i]).RETime)

(* The wall duration of C3 as stated: every interval with a start counts,  *)
(* to its recorded end, or to the clock if it has no end (none recorded,   *)
(* or Unix time 0).                                                        *)
statedWall(h, t) ==
    SumOver({i \in 1..Len(h) : hasStart(h, i)},
            [i \in 1..Len(h) |->
                IF hasStart(h, i)
                THEN (IF ~hasEnd(h, i) THEN t ELSE IF endOf(h, i) = 0 THEN t ELSE endOf(h, i))
                     - startOf(h, i)
                ELSE 0])

(* The wall duration the code gives: only intervals with a start and an    *)
(* end timestamp count, an end of Unix time 0 standing for the clock.      *)
amendedWall(h, t) ==
    SumOver({i \in 1..Len(h) : hasStart(h, i) /\ hasEnd(h, i)},
            [i \in 1..Len(h) |->
                IF hasStart(h, i) /\ hasEnd(h, i)
                THEN (IF endOf(h, i) = 0 THEN t ELSE endOf(h, i)) - startOf(h, i)
                ELSE 0])

wallOfRecord(r) == Deref(r.WallDuration).Seconds

(* C3 as stated: with the history available, the wall duration of the      *)
(* written record is the sum over all intervals with a start, an interval  *)
(* without an end being measured against the clock.                        *)
C3_AsStated ==
    \A u \in Units :
        (writes[u] # <<>> /\ ~vmOf(u).hist.err)
            => /\ writes[u][1].WallDuration # Nil
               /\ wallOfRecord(writes[u][1]) = statedWall(vmOf(u).hist.v, Deref(clockRead[u]))

(* C3: with the history available, the wall duration of the written record *)
(* is the sum of (effective end - start) over the history records that are *)
(* not nil and carry both a start and an end timestamp, the effective end  *)
(* being the clock reading when the recorded end is Unix time 0; records   *)
(* without a start or without an end timestamp contribute nothing.         *)
C3_WallDuration ==
    \A u \in Units :
        (writes[u] # <<>> /\ ~vmOf(u).hist.err)
            => /\ writes[u][1].WallDuration # Nil
               /\ wallOfRecord(writes[u][1]) = amendedWall(vmOf(u).hist.v, Deref(clockRead[u]))

(* A record was written for a history of a running interval (end 0) and an *)
(* interval with a start and no end timestamp.                             *)
C3_Witness ==
    \E u \in Units :
        /\ writes[u] # <<>> /\ ~vmOf(u).hist.err
        /\ \E i, j \in 1..Len(vmOf(u).hist.v) :
              /\ hasStart(vmOf(u).hist.v, i) /\ hasEnd(vmOf(u).hist.v, i)
              /\ endOf(vmOf(u).hist.v, i) = 0
              /\ hasStart(vmOf(u).hist.v, j) /\ ~hasEnd(vmOf(u).hist.v, j)
        /\ wallOfRecord(writes[u][1]) > 0

(* C4: in every written record the suspend duration is present exactly     *)
(* when start time, end time and wall duration are, and then it is         *)
(* end - start - wall, negative or not.                                    *)
C4_SuspendDuration ==
    \A u \in Units : \A k \in 1..Len(writes[u]) :
        LET r == writes[u][k]
            all == r.StartTime # Nil /\ r.EndTime # Nil /\ r.WallDuration # Nil
        IN  /\ (r.SuspendDuration # Nil) <=> all
            /\ all => Deref(r.SuspendDuration).Seconds =
                         Deref(r.EndTime).Seconds - Deref(r.StartTime).Seconds
                         - Deref(r.WallDuration).Seconds

(* A written record carries a negative suspend duration.                   *)
C4_Witness ==
    \E u \in Units : \E k \in 1..Len(writes[u]) :
        /\ writes[u][k].SuspendDuration # Nil
        /\ Deref(writes[u][k].SuspendDuration).Seconds < 0

(* The history holds an interval with a start whose end is Unix time 0.    *)
hasRunning(h) == \E i \in 1..Len(h) : hasStart(h, i) /\ hasEnd(h, i) /\ endOf(h, i) = 0

(* C8 as stated: two preparations of the same resource over the same       *)
(* tables write identical records.                                         *)
C8_AsStated ==
    \A u1, u2 \in Units :
        (res[u1] = res[u2] /\ writes[u1] # <<>> /\ writes[u2] # <<>>)
            => writes[u1][1] = writes[u2][1]

(* C8: two preparations of the same resource over the same tables write    *)
(* identical records when they read the same clock value or the resource   *)
(* has no running history interval (start present, end Unix time 0); the   *)
(* record depends on the clock only through such intervals.                *)
C8_SameRecord ==
    \A u1, u2 \in Units :
        (/\ res[u1] = res[u2] /\ writes[u1] # <<>> /\ writes[u2] # <<>>
         /\ \/ clockRead[u1] = clockRead[u2]
            \/ vmOf(u1).hist.err
            \/ ~hasRunning(vmOf(u1).hist.v))
            => writes[u1][1] = writes[u2][1]

(* The same resource, with an interval that has a start and no end         *)
(* timestamp, was written twice from different clock readings.             *)
C8_Witness ==
    \E u1, u2 \in Units :
        /\ u1 # u2 /\ res[u1] = res[u2] /\ writes[u1] # <<>> /\ writes[u2] # <<>>
        /\ clockRead[u1] # clockRead[u2]
        /\ ~vmOf(u1).hist.err /\ ~hasRunning(vmOf(u1).hist.v)
        /\ \E i \in 1..Len(vmOf(u1).hist.v) :
              hasStart(vmOf(u1).hist.v, i) /\ ~hasEnd(vmOf(u1).hist.v, i)
        /\ writes[u1][1] = writes[u2][1]

(***************************************************************************)
(* Public IP count.                                                        *)
(***************************************************************************)
(* A public IPv4 address, from the ranges the claim names: not nil, an     *)
(* IPv4 address, outside 10.0.0.0/8, 172.16.0.0/12, 192.168.0.0/16,        *)
(* loopback and link-local.                                                *)
statedPublicIPv4(ip) ==
    /\ ip # Nil
    /\ To4(ip) # Nil
    /\ LET o == To4(ip)
       IN  /\ o[1] # 10
           /\ ~(o[1] = 172 /\ o[2] \in 16..31)
           /\ ~(o[1] = 192 /\ o[2] = 168)
           /\ o[1] # 127
           /\ ~(o[1] = 169 /\ o[2] = 254)
           /\ ~(o[1] = 224 /\ o[2] = 0 /\ o[3] = 0)

addressesOf(nic) ==
    (IF statedPublicIPv4(nic.IP) THEN 1 ELSE 0) + (IF nic.IP6Global # Nil THEN 1 ELSE 0)

(* C5 as stated: the count is the number of IPv6-global and public IPv4    *)
(* addresses, however they are spread over the interfaces.                 *)
C5_AsStated ==
    (ipOut.done /\ ~ipIn.err)
        => ipOut.v = Ptr(SumOver(1..Len(ipIn.v), [i \in 1..Len(ipIn.v) |-> addressesOf(ipIn.v[i])]))

(* C5: with the interface list available, the count is the number of       *)
(* interfaces that carry an IPv6-global address or a public IPv4 address   *)
(* (private, loopback and link-local IPv4 addresses do not count): one     *)
(* IPv6-global and one public IPv4 address count 2 on two interfaces and 1 *)
(* on the same interface.  With the list unavailable the count is absent.  *)
C5_PublicIPCount ==
    ipOut.done =>
        IF ipIn.err THEN ipOut.v = Nil
        ELSE ipOut.v = Ptr(Cardinality({i \in 1..Len(ipIn.v) :
                              statedPublicIPv4(ipIn.v[i].IP) \/ ipIn.v[i].IP6Global # Nil}))

(* Counted: one interface with a public IPv4 and an IPv6-global address,   *)
(* beside an interface with a private address.                             *)
C5_Witness ==
    /\ ipOut.done /\ ~ipIn.err /\ Len(ipIn.v) = 2
    /\ ipIn.v[1] = [IP |-> <<8, 8, 8, 8>>, IP6Global |-> Ptr(v6Global)]
    /\ ipIn.v[2] = [IP |-> <<172, 16, 0, 1>>, IP6Global |-> Nil]
    /\ ipOut.v = Ptr(1)

(***************************************************************************)
(* Filter.                                                                 *)
(***************************************************************************)
timesFiltered(i) == Cardinality({k \in 1..Len(filtered) : filtered[k] = i})

(* C10: every invocation of Filtering forwards its resource exactly once   *)
(* and calls wg.Done exactly once (never twice; once when it has           *)
(* finished, and not before the resource was forwarded), and every         *)
(* invocation eventually gives its completion signal.                      *)
C10_Filtering ==
    /\ [](\A i \in Filters :
            /\ timesFiltered(i) <= 1
            /\ filtDone[i] <= 1
            /\ filtDone[i] = 1 <=> filtPc[i] = "done"
            /\ filtPc[i] \in {"defer", "done"} <=> timesFiltered(i) = 1)
    /\ \A i \in Filters : <>(filtDone[i] = 1)

(* All invocations have finished, every resource was forwarded and the     *)
(* wait group is at zero.                                                  *)
C10_Witness ==
    /\ \A i \in Filters : filtPc[i] = "done" /\ timesFiltered(i) = 1 /\ filtDone[i] = 1
    /\ filtWg = 0

(***************************************************************************)
(* Reference tables.                                                       *)
(***************************************************************************)
hostBuilt == mapPc["host"] \in {"defer", "done"} /\ ~reader.hosts.err

userBuilt == mapPc["user"] \in {"defer", "done"} /\ ~reader.users.err

(* The listed clusters a host's cluster ID names.                          *)
clustersOfHost(h) ==
    IF h.cluster.err THEN {}
    ELSE {k \in 1..Len(reader.clusters.v) :
            ~reader.clusters.v[k].id.err /\ reader.clusters.v[k].id.v = h.cluster.v}

typeEntry(id) == MapGet(tables.hostTemplateBenchmarkType, id, EmptyStr)
valueEntry(id) == MapGet(tables.hostTemplateBenchmarkValue, id, EmptyStr)

(* A virtual machine whose first history record names host id.             *)
vmOnHost(id) ==
    [BaseVM EXCEPT !.hist = Ok(<<Ptr([HID |-> Ptr(id), RSTime |-> Ptr(1), RETime |-> Ptr(3)])>>)]

(* C6: once the benchmark tables are built, every host with a resolvable   *)
(* ID has an entry; it holds the host's own type and value if the host has *)
(* both, the cluster's if the host has neither and its cluster has both,   *)
(* and is empty if neither host nor cluster has them, and then a record of *)
(* a virtual machine on that host has no benchmark type and no benchmark.  *)
C6_BenchmarkFallback ==
    hostBuilt =>
        \A n \in 1..Len(reader.hosts.v) :
            LET h == reader.hosts.v[n]
                id == h.id.v
                cs == clustersOfHost(h)
            IN  ~h.id.err =>
                  /\ id \in DOMAIN tables.hostTemplateBenchmarkType.m
                  /\ id \in DOMAIN tables.hostTemplateBenchmarkValue.m
                  /\ (~h.btype.err /\ ~h.bvalue.err)
                        => (typeEntry(id) = h.btype.v /\ valueEntry(id) = h.bvalue.v)
                  /\ (h.btype.err /\ h.bvalue.err)
                        => \A k \in cs :
                              (~reader.clusters.v[k].btype.err /\ ~reader.clusters.v[k].bvalue.err)
                                 => /\ typeEntry(id) = reader.clusters.v[k].btype.v
                                    /\ valueEntry(id) = reader.clusters.v[k].bvalue.v
                  /\ (/\ h.btype.err /\ h.bvalue.err
                      /\ \A k \in cs : reader.clusters.v[k].btype.err /\ reader.clusters.v[k].bvalue.err)
                        => /\ typeEntry(id) = EmptyStr /\ valueEntry(id) = EmptyStr
                           /\ VmRecord(tables, vmOnHost(id), now).BenchmarkType = Nil
                           /\ VmRecord(tables, vmOnHost(id), now).Benchmark = Nil

(* The tables are built for a host without benchmark attributes whose      *)
(* cluster has them: the entry holds the cluster's.                        *)
C6_Witness ==
    /\ hostBuilt /\ mapPc["host"] = "done"
    /\ \E n \in 1..Len(reader.hosts.v) :
          LET h == reader.hosts.v[n]
          IN  /\ ~h.id.err /\ h.btype.err /\ h.bvalue.err
              /\ \E k \in clustersOfHost(h) :
                    /\ ~reader.clusters.v[k].btype.err /\ ~reader.clusters.v[k].bvalue.err
                    /\ typeEntry(h.id.v) = <<"C">> /\ valueEntry(h.id.v) = <<"7">>

(* The decimal form of the user IDs of UserObjs.                           *)
decimal(i) == IF i = 1 THEN <<"1">> ELSE IF i = 12 THEN <<"1", "2">> ELSE <<"?">>

(* C7: once the identity table is built, its keys are the resolvable IDs   *)
(* of the listed users, and each maps to the user's identity attribute if  *)
(* that is set and to the decimal form of the ID otherwise; users without  *)
(* a resolvable ID are passed over, wherever they stand in the listing.    *)
C7_IdentityFallback ==
    userBuilt =>
        /\ tables.userTemplateIdentity.made
        /\ DOMAIN tables.userTemplateIdentity.m =
              {reader.users.v[k].id.v : k \in {j \in 1..Len(reader.users.v) : ~reader.users.v[j].id.err}}
        /\ \A k \in 1..Len(reader.users.v) :
              LET u == reader.users.v[k]
              IN  ~u.id.err =>
                     tables.userTemplateIdentity.m[u.id.v] =
                        IF ~u.attr.err THEN u.attr.v ELSE decimal(u.id.v)

(* Built from a listing of a user without an ID followed by user 12        *)
(* without identity attribute: the table maps 12 to "12".                  *)
C7_Witness ==
    /\ userBuilt /\ mapPc["user"] = "done"
    /\ Len(reader.users.v) = 2
    /\ reader.users.v[1].id.err
    /\ reader.users.v[2] = [id |-> Ok(12), attr |-> Fail(EmptyStr)]
    /\ tables.userTemplateIdentity.m[12] = <<"1", "2">>

subResolutionsDone == \A q \in {"user", "image", "host"} : mapPc[q] = "done"

(* No run of this Reader ends in log.Fatal: the cluster listing is only    *)
(* asked for after a successful host listing.                              *)
noFatalListing == reader.hosts.err \/ ~reader.clusters.err

(* C9: the caller is released only after the three sub-resolutions have    *)
(* called Done; once the caller has added its unit the counter is zero     *)
(* only then, and it is never negative; and in every run without a fatal   *)
(* listing the caller is eventually released.                              *)
C9_Barrier ==
    /\ [](/\ mapPc["caller"] = "released" => subResolutionsDone
          /\ (mapPc["caller"] # "add" /\ mapWg = 0) => subResolutionsDone
          /\ mapWg >= 0)
    /\ noFatalListing => <>(mapPc["caller"] = "released")

(* The caller is released after a build whose user and host listings       *)
(* failed.                                                                 *)
C9_Witness ==
    /\ mapPc["caller"] = "released"
    /\ reader.users.err /\ reader.hosts.err /\ ~reader.images.err
    /\ subResolutionsDone /\ mapWg = 0

(***************************************************************************)
(* Lookups in the reference tables.                                        *)
(***************************************************************************)
submitted(u) == prepPc[u] # "idle"

(* Every mandatory lookup other than the user's gave a value.              *)
othersResolved(vm) ==
    ~vm.id.err /\ ~getVMUUID(vm).err /\ ~getMachineName(vm).err /\ ~getStartTime(vm).err

noIdentity(vm) ==
    \/ vm.user.v \notin DOMAIN tables.userTemplateIdentity.m
    \/ tables.userTemplateIdentity.m[vm.user.v] = EmptyStr

(* C11: with the other mandatory lookups resolved, a unit that has         *)
(* returned wrote no record exactly when the user-ID lookup failed; when   *)
(* the lookup succeeded and the identity table has no entry or an empty    *)
(* entry for the user, the record is written with GlobalUserName absent.   *)
C11_UserAbort ==
    \A u \in Units :
        (submitted(u) /\ res[u] # Nil /\ othersResolved(vmOf(u)) /\ returned(u))
            => /\ (writes[u] = <<>>) <=> vmOf(u).user.err
               /\ (~vmOf(u).user.err /\ noIdentity(vmOf(u)))
                     => (Len(writes[u]) = 1 /\ writes[u][1].GlobalUserName = Nil)
               /\ (~vmOf(u).user.err /\ ~noIdentity(vmOf(u)))
                     => writes[u][1].GlobalUserName =
                           Ptr(tables.userTemplateIdentity.m[vmOf(u).user.v])

(* A record without GlobalUserName was written for user 3, whose identity  *)
(* entry is empty.                                                         *)
C11_Witness ==
    /\ tables = builtTables
    /\ vmOf(1).user = Ok(3)
    /\ prepPc[1] = "done" /\ Len(writes[1]) = 1
    /\ writes[1][1].GlobalUserName = Nil

(***************************************************************************)
(* A whole run.                                                            *)
(***************************************************************************)
(* The listing q of users, images or hosts has failed and its              *)
(* sub-resolution has returned.                                            *)
failedListing(q) ==
    /\ mapPc[q] \in {"defer", "done"}
    /\ (q = "user" /\ reader.users.err) \/ (q = "image" /\ reader.images.err)
          \/ (q = "host" /\ reader.hosts.err)

tablesOf(q) ==
    IF q = "user" THEN <<tables.userTemplateIdentity>>
    ELSE IF q = "image" THEN <<tables.imageTemplateCloudkeeperApplianceMpuri>>
    ELSE <<tables.hostTemplateBenchmarkType, tables.hostTemplateBenchmarkValue>>

listingPolicy ==
    /\ proc = "exited" =>
          (reader.clusters.err /\ \A u \in Units : prepPc[u] = "idle" /\ writes[u] = <<>>)
    /\ (~reader.hosts.err /\ reader.clusters.err) =>
          (mapPc["host"] \in {"idle", "list", "clusters"} /\ mapPc["caller"] # "finished")
    /\ \A q \in {"user", "image", "host"} :
          failedListing(q) =>
             /\ \A k \in 1..Len(tablesOf(q)) : tablesOf(q)[k].m = <<>>
             /\ mapLog >= Cardinality({r \in {"user", "image", "host"} : failedListing(r)})

(* C12: a failed cluster listing ends the process, with no unit started    *)
(* and no record written before or after; nothing else ends it: a failed   *)
(* listing of users, images or hosts is logged, leaves its tables without  *)
(* entries, and the run goes on to Finish.                                 *)
C12_FatalClusters ==
    /\ []listingPolicy
    /\ <>(IF ~reader.hosts.err /\ reader.clusters.err
          THEN proc = "exited"
          ELSE proc = "running" /\ mapPc["caller"] = "finished")

(* The process has exited on the failed cluster listing after the user     *)
(* listing failed and was logged.                                          *)
C12_Witness ==
    /\ proc = "exited"
    /\ reader.clusters.err /\ reader.users.err
    /\ mapPc["user"] = "done" /\ mapLog = 1
    /\ tables.userTemplateIdentity = NilMap

(* The units whose Preparation has been started and has not yet called     *)
(* wg.Done.                                                                *)
outstanding == {u \in Units : prepPc[u] \notin {"idle", "done"}}

(* C13: the caller gets past its wait, to Finish, only when every unit     *)
(* has completed: the wait group counts the units outstanding, a unit has  *)
(* called Done only after its Write call, if any, has returned, and once   *)
(* Finish is invoked no record is handed to Writer.Write any more.         *)
C13_FinishAfterUnits ==
    /\ [](/\ wg = Cardinality(outstanding)
          /\ \A u \in Units : wgDone[u] >= 1 => (prepPc[u] = "done" /\ prepOut[u] = Nil)
          /\ mapPc["caller"] = "finished" => \A u \in Units : prepPc[u] = "done")
    /\ [][mapPc["caller"] = "finished" => writes' = writes]_vars

(* Finish was invoked after unit 1 dropped its resource (user lookup       *)
(* failed) and unit 2 wrote its record.                                    *)
C13_Witness ==
    /\ mapPc["caller"] = "finished"
    /\ res[1] # Nil /\ vmOf(1).user.err /\ writes[1] = <<>>
    /\ Len(writes[2]) = 1
    /\ wg = 0

(***************************************************************************)
(* Isolation of the units.                                                 *)
(***************************************************************************)
(* C14 as stated: whatever its resource holds (a nil or host-less first    *)
(* history record and a nil disk included), no unit brings the process     *)
(* down, and a unit that has returned has written its record or logged an  *)
(* error.                                                                  *)
C14_AsStated ==
    \A u \in Units :
        /\ prepPc[u] # "panic"
        /\ proc # "panicked"
        /\ returned(u) => (Len(writes[u]) = 1 \/ errLog[u] >= 1)

(* C15: a unit hands its record to Writer.Write at most once; the step in  *)
(* which it does, whether Write fails or not, logs at most the one error   *)
(* of the failure, leaves the process running, takes the unit to its       *)
(* deferred Done, and touches no other unit.                               *)
C15_WriteFailure ==
    /\ [](\A u \in Units : Len(writes[u]) <= 1)
    /\ [][\A u \in Units :
            writes'[u] # writes[u] =>
               /\ writes[u] = <<>> /\ Len(writes'[u]) = 1
               /\ prepPc'[u] = "defer"
               /\ errLog'[u] - errLog[u] \in {0, 1}
               /\ proc' = proc /\ proc = "running"
               /\ wg' = wg
               /\ \A v \in Units \ {u} :
                     prepPc'[v] = prepPc[v] /\ writes'[v] = writes[v] /\ errLog'[v] = errLog[v]]_vars

(* Unit 1's Write failed and was logged; both units have written once and  *)
(* called Done.                                                            *)
C15_Witness ==
    /\ res[1] # Nil /\ Len(writes[1]) = 1 /\ prepPc[1] = "done"
    /\ errLog[1] = recordErrors(vmOf(1)) + 1
    /\ Len(writes[2]) = 1 /\ prepPc[2] = "done"
    /\ errLog[2] = recordErrors(vmOf(2))
    /\ proc = "running"

(***************************************************************************)
(* The listing queries of the table build.                                 *)
(***************************************************************************)
(* ListAllClusters has been called: the host sub-resolution has gone       *)
(* through clustersMap().                                                  *)
clustersListed ==
    \/ proc = "exited"
    \/ mapPc["host"] = "build"
    \/ (mapPc["host"] \in {"defer", "done"} /\ ~reader.hosts.err)

(* C16 as stated: by the time the host sub-resolution has returned, the    *)
(* cluster collection has been listed, whatever the host listing gave, and *)
(* a sub-resolution never returns from a build whose cluster listing       *)
(* fails.                                                                  *)
C16_AsStated ==
    mapPc["host"] \in {"defer", "done"} => (clustersListed /\ ~reader.clusters.err)

(* The benchmark of the cluster host h names: that of the listed cluster   *)
(* with the ID, a missing attribute being empty; empty throughout when the *)
(* cluster ID cannot be resolved or names no listed cluster.               *)
clusterBenchmarkOf(h) ==
    IF clustersOfHost(h) = {} THEN [bType |-> EmptyStr, bValue |-> EmptyStr]
    ELSE LET c == reader.clusters.v[CHOOSE k \in clustersOfHost(h) : TRUE]
         IN  [bType |-> IF c.btype.err THEN EmptyStr ELSE c.btype.v,
              bValue |-> IF c.bvalue.err THEN EmptyStr ELSE c.bvalue.v]

(* C17 as stated: once the tables are built, the entry of a host lacking   *)
(* its benchmark type or its benchmark value holds the type and the value  *)
(* of its cluster, both empty when the cluster ID cannot be resolved.      *)
C17_AsStated ==
    hostBuilt =>
        \A n \in 1..Len(reader.hosts.v) :
            LET h == reader.hosts.v[n]
            IN  (~h.id.err /\ (h.btype.err \/ h.bvalue.err)) =>
                   /\ typeEntry(h.id.v) = clusterBenchmarkOf(h).bType
                   /\ valueEntry(h.id.v) = clusterBenchmarkOf(h).bValue

(***************************************************************************)
(* Keys missing from the tables.                                           *)
(***************************************************************************)
missingFrom(t, k) == k \notin DOMAIN t.m

(* C18: for a resource whose user ID, first-disk image ID or first-history *)
(* host ID is missing from its table (a nil table included), the unit logs *)
(* no error for the lookup and, once returned, has written one record in   *)
(* which the field read from that table is absent.                         *)
C18_MissingKey ==
    \A u \in Units :
        LET vm == vmOf(u)
            noUser == ~vm.user.err /\ missingFrom(tables.userTemplateIdentity, vm.user.v)
            noImage == /\ ~vm.disks.err /\ vm.disks.v # <<>>
                       /\ missingFrom(tables.imageTemplateCloudkeeperApplianceMpuri,
                                      Deref(vm.disks.v[1]).ImageID)
            noHost == /\ ~vm.hist.err /\ vm.hist.v # <<>>
                      /\ missingFrom(tables.hostTemplateBenchmarkType,
                                     Deref(Deref(vm.hist.v[1]).HID))
                      /\ missingFrom(tables.hostTemplateBenchmarkValue,
                                     Deref(Deref(vm.hist.v[1]).HID))
        IN  (submitted(u) /\ res[u] # Nil /\ ~vm.user.err /\ (noUser \/ noImage \/ noHost))
               => /\ prepPc[u] \in {"write", "defer", "done"} => errLog[u] <= recordErrors(vm) + 1
                  /\ prepPc[u] = "write" => errLog[u] = recordErrors(vm)
                  /\ returned(u) =>
                        /\ Len(writes[u]) = 1
                        /\ noUser => writes[u][1].GlobalUserName = Nil
                        /\ noImage => writes[u][1].ImageId = Nil
                        /\ noHost => (writes[u][1].BenchmarkType = Nil /\ writes[u][1].Benchmark = Nil)

(* Over tables that were never created, a record without identity, image   *)
(* and benchmark was written and nothing was logged.                       *)
C18_Witness ==
    /\ tables = nilTables
    /\ vmOf(1).user = Ok(1) /\ vmOf(1).disks = Ok(<<goodDisk>>) /\ vmOf(1).hist = Ok(<<goodRecord>>)
    /\ prepPc[1] = "done" /\ Len(writes[1]) = 1 /\ errLog[1] = 0
    /\ writes[1][1].GlobalUserName = Nil /\ writes[1][1].ImageId = Nil
    /\ writes[1][1].BenchmarkType = Nil /\ writes[1][1].Benchmark = Nil

(***************************************************************************)
(* Writers of the tables.                                                  *)
(***************************************************************************)
(* Sub-resolution q takes its build step.                                  *)
buildStepOf(q) == mapPc[q] = "build" /\ mapPc'[q] = "defer"

(* C19: the identity table changes only in the build step of the user      *)
(* sub-resolution, the image table only in that of the image               *)
(* sub-resolution, the two benchmark tables only in that of the host       *)
(* sub-resolution, and no step changes the tables of two of them; no step  *)
(* of a Preparation unit changes a table, and once the caller is released  *)
(* from the build the tables never change again.                           *)
C19_SingleWriter ==
    [][/\ tablesOf("user")' # tablesOf("user") =>
             (buildStepOf("user") /\ tablesOf("image")' = tablesOf("image")
                                  /\ tablesOf("host")' = tablesOf("host"))
       /\ tablesOf("image")' # tablesOf("image") =>
             (buildStepOf("image") /\ tablesOf("user")' = tablesOf("user")
                                   /\ tablesOf("host")' = tablesOf("host"))
       /\ tablesOf("host")' # tablesOf("host") =>
             (buildStepOf("host") /\ tablesOf("user")' = tablesOf("user")
                                  /\ tablesOf("image")' = tablesOf("image"))
       /\ (prepPc' # prepPc \/ writes' # writes) => tables' = tables
       /\ mapPc["caller"] \in {"released", "finished"} => tables' = tables]_vars

(* Finish was invoked after every unit wrote its record over the four      *)
(* tables the build created.                                               *)
C19_Witness ==
    /\ mapPc["caller"] = "finished"
    /\ \A u \in Units : prepPc[u] = "done" /\ Len(writes[u]) = 1
    /\ tables.userTemplateIdentity.made
    /\ tables.imageTemplateCloudkeeperApplianceMpuri.made
    /\ tables.hostTemplateBenchmarkType.made /\ tables.hostTemplateBenchmarkValue.made

(***************************************************************************)
(* Completion signals of the units.                                        *)
(***************************************************************************)
(* The paths of Preparation that end in a return.                          *)
pathOf(u) ==
    IF res[u] = Nil THEN "empty"
    ELSE IF vmOf(u).id.err THEN "id"
    ELSE IF vmOf(u).deployID.err THEN "name"
    ELSE IF vmOf(u).user.err THEN "user"
    ELSE IF getStartTime(vmOf(u)).err THEN "stime"
    ELSE IF writes[u] = <<>> THEN "none"
    ELSE IF errLog[u] > recordErrors(vmOf(u)) THEN "writeFailed"
    ELSE "written"

(* C20: a Preparation unit calls wg.Done never more than once, has called  *)
(* it exactly when it has finished, on each of its paths, and the wait     *)
(* group counts the units that have not; every step of a unit that ends    *)
(* its body leaves the unit with its Done called or about to be called.    *)
C20_DoneOnce ==
    /\ [](/\ \A u \in Units :
                /\ wgDone[u] <= 1
                /\ wgDone[u] = 1 <=> prepPc[u] \in {"done", "panic"}
          /\ wg = Cardinality({u \in Units : wgDone[u] = 0}))
    /\ [][\A u \in Units :
            (prepPc[u] \in {"ready", "write"} /\ prepPc'[u] \notin {"ready", "write"})
               => (prepPc'[u] = "defer" \/ wgDone'[u] = 1)]_vars

(* Units have called Done once each on the empty-resource path and on the  *)
(* path of a failed Write.                                                 *)
C20_Witness ==
    /\ \A u \in Units : prepPc[u] = "done" /\ wgDone[u] = 1
    /\ wg = 0
    /\ pathOf(1) = "empty"
    /\ pathOf(2) = "writeFailed"

=============================================================================
